---- MODULE Spec2Model ----
(***************************************************************************)
(* Plutus backend: CSV-table storage and the services built on it.         *)
(*                                                                         *)
(* Tables are sequences of rows (records).  Money is counted in whole PKR. *)
(* A service call is a process that moves through the storage calls of its *)
(* handler; one step is one awaited storage call together with the         *)
(* synchronous code that follows it up to the next awaited storage call.   *)
(***************************************************************************)
EXTENDS Integers, Sequences, FiniteSets, TLC

VARIABLES users, beneficiaries, transactions, audit_logs,
          procs, today, faults, budget, next_id,
          file, lease, backups, manager

vars == <<users, beneficiaries, transactions, audit_logs,
          procs, today, faults, budget, next_id,
          file, lease, backups, manager>>

\* one table seen at the level of the storage backend: the text of its CSV
\* file or blob, the holder of the blob lease, the backup copies made, and
\* the StorageManager that owns the backend
store == <<file, lease, backups, manager>>

tables == <<users, beneficiaries, transactions, audit_logs>>

(***************************************************************************)
(* Bounds of the model.                                                    *)
(***************************************************************************)
MaxCalls == 3

MaxConcurrentCalls == 2

MaxDay == 2

MaxFaults == 1

\* lock_timeout counted in sleep periods of the acquisition loop
MaxLockWaits == 3

\* the longest one sleep of the acquisition loop takes, in sleep periods
MaxSleep == 2

Procs == {"p1", "p2"}

(***************************************************************************)
(* Settings (app/core/config.py).                                          *)
(***************************************************************************)
default_starting_balance == 1000

default_daily_limit == 10000

daily_transfer_limit == 50000

daily_transaction_limit == 10

max_transaction_amount == 50000

min_transaction_amount == 1

(***************************************************************************)
(* Inputs of the calls.                                                    *)
(***************************************************************************)
UserIds == {"u1", "u0"}

BeneficiaryIds == {"b1", "b9"}

Amounts == {0, 4000, 6000, 20000, 60000}

InitBalances == {5000, 30000}

(***************************************************************************)
(* Generic helpers on tables.                                              *)
(***************************************************************************)
RECURSIVE SelectRows(_, _)
SelectRows(rows, keep) ==
    IF rows = <<>> THEN <<>>
    ELSE IF keep[1] THEN <<Head(rows)>> \o SelectRows(Tail(rows), Tail(keep))
         ELSE SelectRows(Tail(rows), Tail(keep))

RECURSIVE SumAmount(_)
SumAmount(rows) ==
    IF rows = <<>> THEN 0 ELSE Head(rows).amount + SumAmount(Tail(rows))

\* matches.iloc[0] of a filtered frame, or None: <<>> is None, <<row>> a row
iloc0(rows) == IF rows = <<>> THEN <<>> ELSE <<rows[1]>>

(***************************************************************************)
(* Storage (LocalStorage) on one table.                                    *)
(***************************************************************************)
\* LocalStorage.append_csv: read all, add one row at the end, write all
append_csv(rows, row) == Append(rows, row)

\* an update_row that writes back only the rows it matched
update_row_balance_matched_only(rows, uid, new_balance) ==
    LET mask == [i \in 1..Len(rows) |-> rows[i].user_id = uid]
        sel == SelectRows(rows, mask)
    IN IF rows = <<>> \/ sel = <<>>
       THEN [ok |-> FALSE, rows |-> rows]
       ELSE [ok |-> TRUE,
             rows |-> [i \in 1..Len(sel) |->
                         [sel[i] EXCEPT !.balance = new_balance]]]

\* LocalStorage.update_row on users with condition {"user_id": uid} and
\* updates {"balance": new_balance}; ok is the returned bool
update_row_balance(rows, uid, new_balance) ==
    LET mask == [i \in 1..Len(rows) |-> rows[i].user_id = uid]
    IN IF rows = <<>> \/ \A i \in 1..Len(rows) : ~mask[i]
       THEN [ok |-> FALSE, rows |-> rows]
       ELSE [ok |-> TRUE,
             rows |-> [i \in 1..Len(rows) |->
                         IF mask[i] THEN [rows[i] EXCEPT !.balance = new_balance]
                         ELSE rows[i]]]

(***************************************************************************)
(* BaseService.                                                            *)
(***************************************************************************)
get_user_by_id(rows, uid) ==
    iloc0(SelectRows(rows, [i \in 1..Len(rows) |-> rows[i].user_id = uid]))

create_audit_log_entry(uid, action, txn) ==
    [user_id |-> uid, action |-> action, transaction_id |-> txn]

\* a log_audit that writes the new row over the file
log_audit_truncating(arows, uid, action, txn, afail) ==
    IF afail THEN arows
    ELSE <<create_audit_log_entry(uid, action, txn)>>

\* BaseService.log_audit: append one audit row; a storage error is swallowed
log_audit(arows, uid, action, txn, afail) ==
    IF afail THEN arows
    ELSE append_csv(arows, create_audit_log_entry(uid, action, txn))

\* BaseService.update_user_balance: write the balance, then audit the write.
\* wfail: update_row raised; afail: the audit append raised
update_user_balance(urows, arows, uid, new_balance, operation, wfail, afail) ==
    LET r == IF wfail THEN [ok |-> FALSE, rows |-> urows]
             ELSE update_row_balance(urows, uid, new_balance)
    IN [ok |-> r.ok,
        users |-> r.rows,
        audit |-> IF r.ok THEN log_audit(arows, uid, operation, 0, afail)
                  ELSE arows]

(***************************************************************************)
(* TransactionService helpers.                                             *)
(***************************************************************************)
\* rfail: reading transactions.csv raised, the except branch returns zeros
\* dated with the local date
get_user_daily_transfer_info(txns, uid, utc_day, local_day, rfail) ==
    LET sel == SelectRows(txns, [i \in 1..Len(txns) |->
                   /\ txns[i].from_user_id = uid
                   /\ txns[i].day = utc_day
                   /\ txns[i].status = "success"])
    IN IF rfail
       THEN [date |-> local_day, transferred_amount |-> 0, transaction_count |-> 0]
       ELSE [date |-> utc_day,
             transferred_amount |-> SumAmount(sel),
             transaction_count |-> Len(sel)]

\* the "allowed" field of check_daily_transfer_limit
check_daily_transfer_limit(daily_info, current_date, amount) ==
    LET info == IF daily_info.date # current_date
                THEN [date |-> current_date, transferred_amount |-> 0,
                      transaction_count |-> 0]
                ELSE daily_info
        new_amount == info.transferred_amount + amount
        new_count == info.transaction_count + 1
    IN IF new_amount > daily_transfer_limit THEN FALSE
       ELSE IF new_count > daily_transaction_limit THEN FALSE
       ELSE TRUE

get_beneficiary_by_id_for_transaction(rows, uid, bid) ==
    iloc0(SelectRows(rows, [i \in 1..Len(rows) |->
              /\ rows[i].owner_user_id = uid
              /\ rows[i].beneficiary_id = bid]))

\* user is the row re-read by get_user_by_id (<<>> when there is none)
update_daily_transfer_limit(daily_info, user, amount) ==
    IF user = <<>> THEN FALSE
    ELSE LET new_total == daily_info.transferred_amount + amount
         IN IF new_total > user[1].daily_limit THEN FALSE ELSE TRUE

\* a reading of the wrong column of the users row
user_balance_daily_limit(user) == user[1].daily_limit

\* user.get('balance', 0) of the row read at the start of send_money
user_balance(user) == user[1].balance

\* the rejections without the beneficiary lookup
validate_transfer_any_beneficiary(user, beneficiary, amount) ==
    IF amount <= 0 THEN "INVALID_AMOUNT"
    ELSE IF amount < min_transaction_amount THEN "AMOUNT_TOO_LOW"
    ELSE IF amount > max_transaction_amount THEN "AMOUNT_TOO_HIGH"
    ELSE IF user_balance(user) < amount THEN "INSUFFICIENT_BALANCE"
    ELSE "OK"

\* send_money lines 46-87: the rejections that follow the two lookups
validate_transfer(user, beneficiary, amount) ==
    IF beneficiary = <<>> THEN "BENEFICIARY_NOT_FOUND"
    ELSE IF amount <= 0 THEN "INVALID_AMOUNT"
    ELSE IF amount < min_transaction_amount THEN "AMOUNT_TOO_LOW"
    ELSE IF amount > max_transaction_amount THEN "AMOUNT_TOO_HIGH"
    ELSE IF user_balance(user) < amount THEN "INSUFFICIENT_BALANCE"
    ELSE "OK"

\* a debit computed from the balance stored at the time of the write
new_balance_from_stored(user, stored, amount) == stored - amount

\* send_money lines 123-124: the balance written by the debit, computed
\* from the row read at the start of the call; stored is the balance in
\* users.csv at the time of the write, which the code does not consult
new_balance(user, stored, amount) == user_balance(user) - amount

(***************************************************************************)
(* Processes: one per request being served.                                *)
(***************************************************************************)
IdleProc ==
    [pc |-> "idle", op |-> "none", user_id |-> "", beneficiary_id |-> "",
     amount |-> 0, name |-> "", account_number |-> "",
     data |-> <<>>, df |-> <<>>,
     user |-> <<>>, beneficiary |-> <<>>, day |-> 0,
     transaction_id |-> 0, status |-> "none", error_code |-> "",
     pre |-> <<>>, http_status |-> 0, page |-> 0, page_size |-> 0,
     elapsed |-> 0]

\* the response of a handler: create_success_response / create_error_response
Respond(p, status, code) ==
    [procs[p] EXCEPT !.pc = "done", !.status = status, !.error_code = code]

\* storage errors the environment may raise in one step
FaultChoices(kinds) == IF faults > 0 THEN {"none"} \cup kinds ELSE {"none"}

Spend(f) == IF f = "none" THEN faults ELSE faults - 1

\* datetime.now() (create_date) against datetime.utcnow() (create_timestamp)
LocalDates(utc_day) == {utc_day, utc_day + 1}

user_row(rows, uid) == get_user_by_id(rows, uid)[1]

(***************************************************************************)
(* TransactionService.send_money                                           *)
(***************************************************************************)
\* lines 37-44: get_user_by_id
SendMoney_Start(p, uid, bid, amt) ==
    /\ procs[p].pc = "idle"
    /\ budget > 0
    /\ \E f \in FaultChoices({"read"}) :
         LET user == IF f = "read" THEN <<>> ELSE get_user_by_id(users, uid)
             call == [procs[p] EXCEPT !.op = "send_money", !.user_id = uid,
                        !.beneficiary_id = bid, !.amount = amt,
                        !.user = user,
                        !.pre = <<users, beneficiaries, transactions, audit_logs>>]
         IN /\ procs' = [procs EXCEPT ![p] =
                  IF user = <<>>
                  THEN [call EXCEPT !.pc = "done", !.status = "failed",
                                    !.error_code = "USER_NOT_FOUND"]
                  ELSE [call EXCEPT !.pc = "sm_validate"]]
            /\ faults' = Spend(f)
    /\ budget' = budget - 1
    /\ UNCHANGED <<tables, today, next_id>>
    /\ UNCHANGED store

\* lines 46-87: beneficiary lookup, amount and balance checks
SendMoney_Validate(p) ==
    /\ procs[p].pc = "sm_validate"
    /\ \E f \in FaultChoices({"read"}) :
         LET me == procs[p]
             ben == IF f = "read" THEN <<>>
                    ELSE get_beneficiary_by_id_for_transaction(
                             beneficiaries, me.user_id, me.beneficiary_id)
             code == validate_transfer(me.user, ben, me.amount)
         IN /\ procs' = [procs EXCEPT ![p] =
                  IF code = "OK"
                  THEN [me EXCEPT !.beneficiary = ben, !.pc = "sm_check"]
                  ELSE [Respond(p, "failed", code) EXCEPT !.beneficiary = ben]]
            /\ faults' = Spend(f)
    /\ UNCHANGED <<tables, today, budget, next_id>>
    /\ UNCHANGED store

\* lines 89-130: daily limit check, transaction id and record, new balance
SendMoney_CheckLimit(p) ==
    /\ procs[p].pc = "sm_check"
    /\ \E f \in FaultChoices({"read"}), local_day \in LocalDates(today) :
         LET me == procs[p]
             info == get_user_daily_transfer_info(transactions, me.user_id,
                         today, local_day, f = "read")
             allowed == check_daily_transfer_limit(info, local_day, me.amount)
         IN /\ IF ~allowed
               THEN /\ procs' = [procs EXCEPT ![p] =
                          Respond(p, "failed", "DAILY_LIMIT_EXCEEDED")]
                    /\ next_id' = next_id
               ELSE /\ next_id' = next_id + 1
                    /\ IF new_balance(me.user, user_balance(get_user_by_id(users, me.user_id)), me.amount) < 0
                       THEN procs' = [procs EXCEPT ![p] =
                              Respond(p, "failed", "INSUFFICIENT_BALANCE")]
                       ELSE procs' = [procs EXCEPT ![p] =
                              [me EXCEPT !.pc = "sm_debit", !.day = today,
                                         !.transaction_id = next_id]]
            /\ faults' = Spend(f)
    /\ UNCHANGED <<tables, today, budget>>
    /\ UNCHANGED store

\* lines 132-144: update_user_balance(user_id, new_balance, "transfer_debit")
SendMoney_Debit(p) ==
    /\ procs[p].pc = "sm_debit"
    /\ \E f \in FaultChoices({"write", "audit"}) :
         LET me == procs[p]
             stored == user_balance(get_user_by_id(users, me.user_id))
             r == update_user_balance(users, audit_logs, me.user_id,
                      new_balance(me.user, stored, me.amount),
                      "balance_transfer_debit", f = "write", f = "audit")
         IN /\ users' = r.users
            /\ audit_logs' = r.audit
            /\ procs' = [procs EXCEPT ![p] =
                  IF r.ok THEN [me EXCEPT !.pc = "sm_limit"]
                  ELSE Respond(p, "failed", "BALANCE_UPDATE_FAILED")]
            /\ faults' = Spend(f)
    /\ UNCHANGED <<beneficiaries, transactions, today, budget, next_id>>
    /\ UNCHANGED store

\* lines 146-148: update_daily_transfer_limit
SendMoney_UpdateLimit(p) ==
    /\ procs[p].pc = "sm_limit"
    /\ \E f \in FaultChoices({"read_transactions", "read_users"}),
          local_day \in LocalDates(today) :
         LET me == procs[p]
             info == get_user_daily_transfer_info(transactions, me.user_id,
                         today, local_day, f = "read_transactions")
             user == IF f = "read_users" THEN <<>>
                     ELSE get_user_by_id(users, me.user_id)
             limit_update == update_daily_transfer_limit(info, user, me.amount)
         IN /\ procs' = [procs EXCEPT ![p] =
                  [me EXCEPT !.pc = IF limit_update THEN "sm_append"
                                    ELSE "sm_rollback"]]
            /\ faults' = Spend(f)
    /\ UNCHANGED <<tables, today, budget, next_id>>
    /\ UNCHANGED store

\* lines 149-161: compensating write after a rejected limit update
SendMoney_Rollback(p) ==
    /\ procs[p].pc = "sm_rollback"
    /\ \E f \in FaultChoices({"write", "audit"}) :
         LET me == procs[p]
             r == update_user_balance(users, audit_logs, me.user_id,
                      user_balance(me.user), "balance_transfer_rollback",
                      f = "write", f = "audit")
         IN /\ users' = r.users
            /\ audit_logs' = r.audit
            /\ procs' = [procs EXCEPT ![p] =
                  Respond(p, "failed", "LIMIT_UPDATE_FAILED")]
            /\ faults' = Spend(f)
    /\ UNCHANGED <<beneficiaries, transactions, today, budget, next_id>>
    /\ UNCHANGED store

\* lines 163-187 and 223-228: append the transaction row; append_csv returns
\* True or raises, and the raise is caught by the handler's outer except
SendMoney_Append(p) ==
    /\ procs[p].pc = "sm_append"
    /\ \E f \in FaultChoices({"write"}) :
         LET me == procs[p]
             record == [transaction_id |-> me.transaction_id,
                        from_user_id |-> me.user_id,
                        to_user_id |-> me.beneficiary_id,
                        amount |-> me.amount,
                        status |-> "success",
                        day |-> me.day]
         IN /\ IF f = "write"
               THEN /\ transactions' = transactions
                    /\ procs' = [procs EXCEPT ![p] =
                          Respond(p, "failed", "INTERNAL_ERROR")]
               ELSE /\ transactions' = append_csv(transactions, record)
                    /\ procs' = [procs EXCEPT ![p] = [me EXCEPT !.pc = "sm_finish"]]
            /\ faults' = Spend(f)
    /\ UNCHANGED <<users, beneficiaries, audit_logs, today, budget, next_id>>
    /\ UNCHANGED store

\* lines 189-228: re-read the user, audit the transfer, answer
SendMoney_Finish(p) ==
    /\ procs[p].pc = "sm_finish"
    /\ \E f \in FaultChoices({"read", "audit"}) :
         LET me == procs[p]
             updated_user == IF f = "read" THEN <<>>
                             ELSE get_user_by_id(users, me.user_id)
         IN /\ IF updated_user = <<>>
               THEN /\ audit_logs' = audit_logs
                    /\ procs' = [procs EXCEPT ![p] =
                          Respond(p, "failed", "INTERNAL_ERROR")]
               ELSE /\ audit_logs' = log_audit(audit_logs, me.user_id,
                          "money_transfer", me.transaction_id, f = "audit")
                    /\ procs' = [procs EXCEPT ![p] = Respond(p, "success", "")]
            /\ faults' = Spend(f)
    /\ UNCHANGED <<users, beneficiaries, transactions, today, budget, next_id>>
    /\ UNCHANGED store

\* the response has been sent; the request's state is dropped
Return(p) ==
    /\ procs[p].pc = "done"
    /\ procs' = [procs EXCEPT ![p] = IdleProc]
    /\ UNCHANGED <<tables, today, faults, budget, next_id>>
    /\ UNCHANGED store

\* midnight (UTC) passes
Tick ==
    /\ today < MaxDay
    /\ today' = today + 1
    /\ UNCHANGED <<tables, procs, faults, budget, next_id>>
    /\ UNCHANGED store

(***************************************************************************)
(* BalanceService.deposit_money and withdraw_money                         *)
(***************************************************************************)
DepositAmounts == {4000}

WithdrawAmounts == {4000}

\* a withdrawal computed from the balance stored at the time of the write
withdraw_new_balance_from_stored(user, stored, amount) == stored - amount

\* withdraw_money line 230: new_balance = current_balance - amount, from the
\* row read at the start of the call
withdraw_new_balance(user, stored, amount) == user_balance(user) - amount

\* a deposit that credits the amount twice
deposit_new_balance_twice(user, amount) ==
    user_balance(user) + amount + amount

\* deposit_money line 113: new_balance = current_balance + amount
deposit_new_balance(user, amount) == user_balance(user) + amount

\* deposit_money lines 104-117: get_user_by_id, new balance, transaction id
Deposit_Start(p, uid, amt) ==
    /\ procs[p].pc = "idle"
    /\ budget > 0
    /\ \E f \in FaultChoices({"read"}) :
         LET user == IF f = "read" THEN <<>> ELSE get_user_by_id(users, uid)
             call == [procs[p] EXCEPT !.op = "deposit_money", !.user_id = uid,
                        !.amount = amt, !.user = user,
                        !.transaction_id = next_id,
                        !.pre = <<users, beneficiaries, transactions, audit_logs>>]
         IN /\ procs' = [procs EXCEPT ![p] =
                  IF user = <<>>
                  THEN [call EXCEPT !.pc = "done", !.status = "failed",
                                    !.error_code = "USER_NOT_FOUND"]
                  ELSE [call EXCEPT !.pc = "dp_update"]]
            /\ next_id' = IF user = <<>> THEN next_id ELSE next_id + 1
            /\ faults' = Spend(f)
    /\ budget' = budget - 1
    /\ UNCHANGED <<tables, today>>
    /\ UNCHANGED store

\* deposit_money lines 119-132: update_user_balance(..., "deposit")
Deposit_Update(p) ==
    /\ procs[p].pc = "dp_update"
    /\ \E f \in FaultChoices({"write", "audit"}) :
         LET me == procs[p]
             r == update_user_balance(users, audit_logs, me.user_id,
                      deposit_new_balance(me.user, me.amount),
                      "balance_deposit", f = "write", f = "audit")
         IN /\ users' = r.users
            /\ audit_logs' = r.audit
            /\ procs' = [procs EXCEPT ![p] =
                  IF r.ok THEN [me EXCEPT !.pc = "dp_append"]
                  ELSE Respond(p, "failed", "UPDATE_FAILED")]
            /\ faults' = Spend(f)
    /\ UNCHANGED <<beneficiaries, transactions, today, budget, next_id>>
    /\ UNCHANGED store

\* deposit_money lines 134-186: append the transaction row, audit, answer;
\* a raise of append_csv is caught by the outer except
Deposit_Append(p) ==
    /\ procs[p].pc = "dp_append"
    /\ \E f \in FaultChoices({"write", "audit"}) :
         LET me == procs[p]
             transaction_data == [transaction_id |-> me.transaction_id,
                                  from_user_id |-> "SYSTEM",
                                  to_user_id |-> me.user_id,
                                  amount |-> me.amount,
                                  status |-> "success",
                                  day |-> today]
         IN /\ IF f = "write"
               THEN /\ UNCHANGED <<transactions, audit_logs>>
                    /\ procs' = [procs EXCEPT ![p] =
                          Respond(p, "failed", "INTERNAL_ERROR")]
               ELSE /\ transactions' = append_csv(transactions, transaction_data)
                    /\ audit_logs' = log_audit(audit_logs, me.user_id, "deposit",
                                         me.transaction_id, f = "audit")
                    /\ procs' = [procs EXCEPT ![p] = Respond(p, "success", "")]
            /\ faults' = Spend(f)
    /\ UNCHANGED <<users, beneficiaries, today, budget, next_id>>
    /\ UNCHANGED store

\* withdraw_money lines 198-233: get_user_by_id, the balance check (a
\* refusal is audited), new balance, transaction id
Withdraw_Start(p, uid, amt) ==
    /\ procs[p].pc = "idle"
    /\ budget > 0
    /\ \E f \in FaultChoices({"read", "audit"}) :
         LET user == IF f = "read" THEN <<>> ELSE get_user_by_id(users, uid)
             call == [procs[p] EXCEPT !.op = "withdraw_money", !.user_id = uid,
                        !.amount = amt, !.user = user,
                        !.transaction_id = next_id,
                        !.pre = <<users, beneficiaries, transactions, audit_logs>>]
         IN /\ IF user = <<>>
               THEN /\ procs' = [procs EXCEPT ![p] =
                          [call EXCEPT !.pc = "done", !.status = "failed",
                                       !.error_code = "USER_NOT_FOUND"]]
                    /\ UNCHANGED <<audit_logs, next_id>>
               ELSE IF user_balance(user) < amt
               THEN /\ audit_logs' = log_audit(audit_logs, uid,
                                         "withdrawal_failed", 0, f = "audit")
                    /\ procs' = [procs EXCEPT ![p] =
                          [call EXCEPT !.pc = "done", !.status = "failed",
                                       !.error_code = "INSUFFICIENT_FUNDS"]]
                    /\ next_id' = next_id
               ELSE /\ procs' = [procs EXCEPT ![p] =
                          [call EXCEPT !.pc = "wd_update"]]
                    /\ next_id' = next_id + 1
                    /\ audit_logs' = audit_logs
            /\ faults' = Spend(f)
    /\ budget' = budget - 1
    /\ UNCHANGED <<users, beneficiaries, transactions, today>>
    /\ UNCHANGED store

\* withdraw_money lines 235-248: update_user_balance(..., "withdraw")
Withdraw_Update(p) ==
    /\ procs[p].pc = "wd_update"
    /\ \E f \in FaultChoices({"write", "audit"}) :
         LET me == procs[p]
             stored == user_balance(get_user_by_id(users, me.user_id))
             r == update_user_balance(users, audit_logs, me.user_id,
                      withdraw_new_balance(me.user, stored, me.amount),
                      "balance_withdraw", f = "write", f = "audit")
         IN /\ users' = r.users
            /\ audit_logs' = r.audit
            /\ procs' = [procs EXCEPT ![p] =
                  IF r.ok THEN [me EXCEPT !.pc = "wd_append"]
                  ELSE Respond(p, "failed", "UPDATE_FAILED")]
            /\ faults' = Spend(f)
    /\ UNCHANGED <<beneficiaries, transactions, today, budget, next_id>>
    /\ UNCHANGED store

\* withdraw_money lines 250-300: append the transaction row, audit, answer
Withdraw_Append(p) ==
    /\ procs[p].pc = "wd_append"
    /\ \E f \in FaultChoices({"write", "audit"}) :
         LET me == procs[p]
             transaction_data == [transaction_id |-> me.transaction_id,
                                  from_user_id |-> me.user_id,
                                  to_user_id |-> "SYSTEM",
                                  amount |-> me.amount,
                                  status |-> "success",
                                  day |-> today]
         IN /\ IF f = "write"
               THEN /\ UNCHANGED <<transactions, audit_logs>>
                    /\ procs' = [procs EXCEPT ![p] =
                          Respond(p, "failed", "INTERNAL_ERROR")]
               ELSE /\ transactions' = append_csv(transactions, transaction_data)
                    /\ audit_logs' = log_audit(audit_logs, me.user_id,
                                         "withdrawal", me.transaction_id,
                                         f = "audit")
                    /\ procs' = [procs EXCEPT ![p] = Respond(p, "success", "")]
            /\ faults' = Spend(f)
    /\ UNCHANGED <<users, beneficiaries, today, budget, next_id>>
    /\ UNCHANGED store

NewDailyLimits == {5000}

\* LocalStorage.update_row on users with condition {"user_id": uid} and
\* updates {"daily_limit": new_daily_limit}
update_row_daily_limit(rows, uid, new_daily_limit) ==
    LET mask == [i \in 1..Len(rows) |-> rows[i].user_id = uid]
    IN IF rows = <<>> \/ \A i \in 1..Len(rows) : ~mask[i]
       THEN [ok |-> FALSE, rows |-> rows]
       ELSE [ok |-> TRUE,
             rows |-> [i \in 1..Len(rows) |->
                         IF mask[i]
                         THEN [rows[i] EXCEPT !.daily_limit = new_daily_limit]
                         ELSE rows[i]]]

\* update_daily_limit lines 436-445: get_user_by_id
UpdateDailyLimit_Start(p, uid, new_daily_limit) ==
    /\ procs[p].pc = "idle"
    /\ budget > 0
    /\ \E f \in FaultChoices({"read"}) :
         LET user == IF f = "read" THEN <<>> ELSE get_user_by_id(users, uid)
             call == [procs[p] EXCEPT !.op = "update_daily_limit",
                        !.user_id = uid, !.amount = new_daily_limit,
                        !.user = user,
                        !.pre = <<users, beneficiaries, transactions, audit_logs>>]
         IN /\ procs' = [procs EXCEPT ![p] =
                  IF user = <<>>
                  THEN [call EXCEPT !.pc = "done", !.status = "failed",
                                    !.error_code = "USER_NOT_FOUND"]
                  ELSE [call EXCEPT !.pc = "dl_update"]]
            /\ faults' = Spend(f)
    /\ budget' = budget - 1
    /\ UNCHANGED <<tables, today, next_id>>
    /\ UNCHANGED store

\* update_daily_limit lines 447-487: update_row, audit, answer; a raise of
\* update_row is caught by the outer except
UpdateDailyLimit_Update(p) ==
    /\ procs[p].pc = "dl_update"
    /\ \E f \in FaultChoices({"write", "audit"}) :
         LET me == procs[p]
             r == update_row_daily_limit(users, me.user_id, me.amount)
         IN /\ IF f = "write"
               THEN /\ UNCHANGED <<users, audit_logs>>
                    /\ procs' = [procs EXCEPT ![p] =
                          Respond(p, "failed", "INTERNAL_ERROR")]
               ELSE IF ~r.ok
               THEN /\ UNCHANGED <<users, audit_logs>>
                    /\ procs' = [procs EXCEPT ![p] =
                          Respond(p, "failed", "UPDATE_FAILED")]
               ELSE /\ users' = r.rows
                    /\ audit_logs' = log_audit(audit_logs, me.user_id,
                                         "daily_limit_updated", 0, f = "audit")
                    /\ procs' = [procs EXCEPT ![p] = Respond(p, "success", "")]
            /\ faults' = Spend(f)
    /\ UNCHANGED <<beneficiaries, transactions, today, budget, next_id>>
    /\ UNCHANGED store

(***************************************************************************)
(* CSV text and pandas values.  A value of a DataFrame cell is a record    *)
(* [ty, text]: its Python type and the text to_csv writes for it.          *)
(***************************************************************************)
\* texts that pandas.read_csv parses as integers
IntTexts == {"7", "007", "1001", "1002", "1003", "2002", "1000000003"}

\* the text of the integer a text parses to
int_text(t) == IF t = "007" THEN "7" ELSE t

\* texts that pandas.read_csv parses as floats: what to_csv writes for the
\* floats of the model
FloatTexts == {int_text(t) \o ".0" : t \in IntTexts}

\* texts that pandas.read_csv parses as missing values (default na_values)
NaTexts == {"", "NA"}

py_str(t) == [ty |-> "str", text |-> t]

py_nan == [ty |-> "nan", text |-> ""]

\* pandas.read_csv: the dtype inferred for a column from the texts of its
\* cells (a sequence)
infer_dtype(texts) ==
    IF texts = <<>> THEN "object"
    ELSE IF \A i \in 1..Len(texts) : texts[i] \in IntTexts THEN "int64"
    ELSE IF /\ \A i \in 1..Len(texts) :
                  texts[i] \in IntTexts \cup FloatTexts \cup NaTexts
            /\ \E i \in 1..Len(texts) : texts[i] \in IntTexts \cup FloatTexts
    THEN "float64"
    ELSE "object"

\* pandas.read_csv: the value of a cell of text t in a column of that dtype
parse_cell(t, dtype) ==
    IF dtype = "int64" THEN [ty |-> "int", text |-> int_text(t)]
    ELSE IF t \in NaTexts THEN py_nan
    ELSE IF dtype = "float64"
         THEN [ty |-> "float",
               text |-> IF t \in FloatTexts THEN t ELSE int_text(t) \o ".0"]
    ELSE py_str(t)

\* base_storage.sanitize_csv_data on a string: the comma is replaced by
\* the three characters U+00EF U+00BC U+0152
sanitize_csv_data(t) == IF t = "a,b" THEN "a<U+00EF><U+00BC><U+0152>b" ELSE t

\* str.lower
lower(t) == IF t = "Ann" THEN "ann" ELSE t

(***************************************************************************)
(* BeneficiaryService.                                                     *)
(***************************************************************************)
Names == {"ann", "Ann", "a,b"}

AccountNumbers == {"1002", "2002"}

Owners == {"u1", "u2"}

find_beneficiary_by_name(rows, uid, name) ==
    iloc0(SelectRows(rows, [i \in 1..Len(rows) |->
              /\ rows[i].owner_user_id = uid
              /\ lower(rows[i].name) = lower(name)]))

\* the account_number column as read_csv returns it, compared with the
\* str the request carries
find_beneficiary_by_account(rows, uid, account_number) ==
    LET dtype == infer_dtype([i \in 1..Len(rows) |-> rows[i].account_number])
    IN iloc0(SelectRows(rows, [i \in 1..Len(rows) |->
              /\ rows[i].owner_user_id = uid
              /\ parse_cell(rows[i].account_number, dtype)
                   = py_str(account_number)]))

\* a row whatever its owner
match_beneficiary_any_owner(row, uid, bid) == row.beneficiary_id = bid

\* the row of one owner with one beneficiary_id: the filter of
\* get_beneficiary_by_id and the condition dict of delete_row / update_row
match_beneficiary(row, uid, bid) ==
    row.owner_user_id = uid /\ row.beneficiary_id = bid

get_beneficiary_by_id(rows, uid, bid) ==
    iloc0(SelectRows(rows, [i \in 1..Len(rows) |->
              match_beneficiary(rows[i], uid, bid)]))

generate_beneficiary_id(n) == "b" \o ToString(n + 1)

\* LocalStorage.delete_row with condition {owner_user_id, beneficiary_id}
delete_row_beneficiary(rows, uid, bid) ==
    LET mask == [i \in 1..Len(rows) |-> match_beneficiary(rows[i], uid, bid)]
    IN IF rows = <<>> \/ \A i \in 1..Len(rows) : ~mask[i]
       THEN [ok |-> FALSE, rows |-> rows]
       ELSE [ok |-> TRUE,
             rows |-> SelectRows(rows, [i \in 1..Len(rows) |-> ~mask[i]])]

\* LocalStorage.update_row with condition {owner_user_id, beneficiary_id};
\* an update of "" is a key absent from the updates dict
update_row_beneficiary(rows, uid, bid, name, account_number) ==
    LET mask == [i \in 1..Len(rows) |-> match_beneficiary(rows[i], uid, bid)]
    IN IF rows = <<>> \/ \A i \in 1..Len(rows) : ~mask[i]
       THEN [ok |-> FALSE, rows |-> rows]
       ELSE [ok |-> TRUE,
             rows |-> [i \in 1..Len(rows) |->
                 IF mask[i]
                 THEN [rows[i] EXCEPT
                         !.name = IF name = "" THEN @
                                  ELSE sanitize_csv_data(name),
                         !.account_number = IF account_number = "" THEN @
                                            ELSE sanitize_csv_data(account_number)]
                 ELSE rows[i]]]

\* add_beneficiary lines 36-84: the lookups and the duplicate checks
AddBeneficiary_Check(p, uid, name, account_number) ==
    /\ procs[p].pc = "idle"
    /\ budget > 0
    /\ LET call == [procs[p] EXCEPT !.op = "add_beneficiary", !.user_id = uid,
                      !.name = name, !.account_number = account_number,
                      !.user = get_user_by_id(users, uid),
                      !.pre = <<users, beneficiaries, transactions, audit_logs>>]
           code == IF get_user_by_id(users, uid) = <<>> THEN "USER_NOT_FOUND"
                   ELSE IF find_beneficiary_by_name(beneficiaries, uid, name) # <<>>
                        THEN "BENEFICIARY_EXISTS"
                   ELSE IF find_beneficiary_by_account(beneficiaries, uid,
                               account_number) # <<>>
                        THEN "ACCOUNT_EXISTS"
                   ELSE "OK"
       IN IF code = "OK"
          THEN /\ procs' = [procs EXCEPT ![p] =
                     [call EXCEPT !.pc = "ab_append",
                                  !.beneficiary_id = generate_beneficiary_id(next_id)]]
               /\ next_id' = next_id + 1
          ELSE /\ procs' = [procs EXCEPT ![p] =
                     [call EXCEPT !.pc = "done", !.status = "failed",
                                  !.error_code = code]]
               /\ next_id' = next_id
    /\ budget' = budget - 1
    /\ UNCHANGED <<tables, today, faults>>
    /\ UNCHANGED store

\* add_beneficiary lines 86-123: append the row, audit, answer
AddBeneficiary_Append(p) ==
    /\ procs[p].pc = "ab_append"
    /\ LET me == procs[p]
           beneficiary_record ==
               [owner_user_id |-> sanitize_csv_data(me.user_id),
                beneficiary_id |-> sanitize_csv_data(me.beneficiary_id),
                name |-> sanitize_csv_data(me.name),
                account_number |-> sanitize_csv_data(me.account_number),
                added_at |-> today]
       IN /\ beneficiaries' = append_csv(beneficiaries, beneficiary_record)
          /\ audit_logs' = log_audit(audit_logs, me.user_id,
                               "beneficiary_added", 0, FALSE)
          /\ procs' = [procs EXCEPT ![p] = Respond(p, "success", "")]
    /\ UNCHANGED <<users, transactions, today, faults, budget, next_id>>
    /\ UNCHANGED store

\* remove_beneficiary lines 239-246
RemoveBeneficiary_Find(p, uid, bid) ==
    /\ procs[p].pc = "idle"
    /\ budget > 0
    /\ LET ben == get_beneficiary_by_id(beneficiaries, uid, bid)
           call == [procs[p] EXCEPT !.op = "remove_beneficiary",
                      !.user_id = uid, !.beneficiary_id = bid,
                      !.beneficiary = ben,
                      !.pre = <<users, beneficiaries, transactions, audit_logs>>]
       IN procs' = [procs EXCEPT ![p] =
              IF ben = <<>>
              THEN [call EXCEPT !.pc = "done", !.status = "failed",
                                !.error_code = "BENEFICIARY_NOT_FOUND"]
              ELSE [call EXCEPT !.pc = "rb_delete"]]
    /\ budget' = budget - 1
    /\ UNCHANGED <<tables, today, faults, next_id>>
    /\ UNCHANGED store

\* remove_beneficiary lines 248-286
RemoveBeneficiary_Delete(p) ==
    /\ procs[p].pc = "rb_delete"
    /\ LET me == procs[p]
           r == delete_row_beneficiary(beneficiaries, me.user_id,
                                       me.beneficiary_id)
       IN /\ beneficiaries' = r.rows
          /\ IF r.ok
             THEN /\ audit_logs' = log_audit(audit_logs, me.user_id,
                                       "beneficiary_removed", 0, FALSE)
                  /\ procs' = [procs EXCEPT ![p] = Respond(p, "success", "")]
             ELSE /\ audit_logs' = audit_logs
                  /\ procs' = [procs EXCEPT ![p] =
                        Respond(p, "failed", "REMOVE_FAILED")]
    /\ UNCHANGED <<users, transactions, today, faults, budget, next_id>>
    /\ UNCHANGED store

\* update_beneficiary lines 306-354; name or account_number "" is None
UpdateBeneficiary_Check(p, uid, bid, name, account_number) ==
    /\ procs[p].pc = "idle"
    /\ budget > 0
    /\ LET ben == get_beneficiary_by_id(beneficiaries, uid, bid)
           by_name == find_beneficiary_by_name(beneficiaries, uid, name)
           by_account == find_beneficiary_by_account(beneficiaries, uid,
                                                     account_number)
           code == IF ben = <<>> THEN "BENEFICIARY_NOT_FOUND"
                   ELSE IF /\ name # ""
                           /\ by_name # <<>>
                           /\ by_name[1].beneficiary_id # bid
                        THEN "NAME_EXISTS"
                   ELSE IF /\ account_number # ""
                           /\ by_account # <<>>
                           /\ by_account[1].beneficiary_id # bid
                        THEN "ACCOUNT_EXISTS"
                   ELSE IF name = "" /\ account_number = "" THEN "NO_UPDATES"
                   ELSE "OK"
           call == [procs[p] EXCEPT !.op = "update_beneficiary",
                      !.user_id = uid, !.beneficiary_id = bid,
                      !.name = name, !.account_number = account_number,
                      !.beneficiary = ben,
                      !.pre = <<users, beneficiaries, transactions, audit_logs>>]
       IN procs' = [procs EXCEPT ![p] =
              IF code = "OK" THEN [call EXCEPT !.pc = "ub_write"]
              ELSE [call EXCEPT !.pc = "done", !.status = "failed",
                                !.error_code = code]]
    /\ budget' = budget - 1
    /\ UNCHANGED <<tables, today, faults, next_id>>
    /\ UNCHANGED store

\* update_beneficiary lines 356-406
UpdateBeneficiary_Write(p) ==
    /\ procs[p].pc = "ub_write"
    /\ LET me == procs[p]
           r == update_row_beneficiary(beneficiaries, me.user_id,
                    me.beneficiary_id, me.name, me.account_number)
           updated_beneficiary ==
               get_beneficiary_by_id(r.rows, me.user_id, me.beneficiary_id)
       IN /\ beneficiaries' = r.rows
          /\ IF r.ok
             THEN /\ audit_logs' = log_audit(audit_logs, me.user_id,
                                       "beneficiary_updated", 0, FALSE)
                  /\ procs' = [procs EXCEPT ![p] =
                        IF updated_beneficiary = <<>>
                        THEN Respond(p, "failed", "INTERNAL_ERROR")
                        ELSE Respond(p, "success", "")]
             ELSE /\ audit_logs' = audit_logs
                  /\ procs' = [procs EXCEPT ![p] =
                        Respond(p, "failed", "UPDATE_FAILED")]
    /\ UNCHANGED <<users, transactions, today, faults, budget, next_id>>
    /\ UNCHANGED store

(***************************************************************************)
(* AuthService.register_user                                               *)
(***************************************************************************)
Usernames == {"Ann", "zed"}

RegistrationAccounts == {"1000000003", "1001"}

\* BaseService.get_user_by_username; rfail: read_csv raised, None returned
get_user_by_username(rows, username, rfail) ==
    IF rfail THEN <<>>
    ELSE iloc0(SelectRows(rows, [i \in 1..Len(rows) |->
                  rows[i].username = lower(username)]))

\* BaseService.get_user_by_account_number: the account_number column as
\* read_csv returns it, compared with the str the request carries
get_user_by_account_number(rows, account_number, rfail) ==
    IF rfail THEN <<>>
    ELSE LET dtype == infer_dtype([i \in 1..Len(rows) |->
                                     rows[i].account_number])
         IN iloc0(SelectRows(rows, [i \in 1..Len(rows) |->
                  parse_cell(rows[i].account_number, dtype)
                    = py_str(account_number)]))

\* SecurityUtils.validate_account_number on a text without spaces or
\* hyphens: digits only, 10 to 20 of them, not one digit repeated
validate_account_number(account_number) ==
    [valid |-> /\ account_number \in IntTexts
               /\ Len(account_number) >= 10
               /\ Len(account_number) <= 20
               /\ account_number # "1111111111",
     formatted_number |-> account_number]

generate_user_id(n) == "u" \o ToString(n + 2)

\* register_user lines 35-52: the username must be new
Register_Start(p, username, account_number) ==
    /\ procs[p].pc = "idle"
    /\ budget > 0
    /\ \E f \in FaultChoices({"read", "audit"}) :
         LET existing_user == get_user_by_username(users, username, f = "read")
             call == [procs[p] EXCEPT !.op = "register_user",
                        !.name = username, !.account_number = account_number,
                        !.pre = <<users, beneficiaries, transactions, audit_logs>>]
         IN /\ IF existing_user # <<>>
               THEN /\ audit_logs' = log_audit(audit_logs, "system",
                                         "registration_failed", 0, f = "audit")
                    /\ procs' = [procs EXCEPT ![p] =
                          [call EXCEPT !.pc = "done", !.status = "failed",
                                       !.error_code = "USERNAME_EXISTS"]]
               ELSE /\ UNCHANGED audit_logs
                    /\ procs' = [procs EXCEPT ![p] =
                          [call EXCEPT !.pc = "rg_account"]]
            /\ faults' = Spend(f)
    /\ budget' = budget - 1
    /\ UNCHANGED <<users, beneficiaries, transactions, today, next_id>>
    /\ UNCHANGED store

\* register_user lines 54-79: the account number must be new and well formed
Register_CheckAccount(p) ==
    /\ procs[p].pc = "rg_account"
    /\ \E f \in FaultChoices({"read", "audit"}) :
         LET me == procs[p]
             existing_account ==
                 get_user_by_account_number(users, me.account_number, f = "read")
             account_validation == validate_account_number(me.account_number)
         IN /\ IF existing_account # <<>>
               THEN /\ audit_logs' = log_audit(audit_logs, "system",
                                         "registration_failed", 0, f = "audit")
                    /\ procs' = [procs EXCEPT ![p] =
                          Respond(p, "failed", "ACCOUNT_EXISTS")]
               ELSE IF ~account_validation.valid
               THEN /\ UNCHANGED audit_logs
                    /\ procs' = [procs EXCEPT ![p] =
                          Respond(p, "failed", "INVALID_ACCOUNT")]
               ELSE /\ UNCHANGED audit_logs
                    /\ procs' = [procs EXCEPT ![p] =
                          [me EXCEPT !.pc = "rg_append"]]
            /\ faults' = Spend(f)
    /\ UNCHANGED <<users, beneficiaries, transactions, today, budget, next_id>>
    /\ UNCHANGED store

\* register_user lines 81-139: append the user row, audit, answer; a raise
\* of append_csv is caught by the outer except
Register_Append(p) ==
    /\ procs[p].pc = "rg_append"
    /\ \E f \in FaultChoices({"write", "audit"}) :
         LET me == procs[p]
             user_id == generate_user_id(next_id)
             user_data ==
                 [user_id |-> user_id, username |-> lower(me.name),
                  account_number |->
                      validate_account_number(me.account_number).formatted_number,
                  balance |-> default_starting_balance,
                  daily_limit |-> default_daily_limit]
         IN /\ IF f = "write"
               THEN /\ UNCHANGED <<users, audit_logs, next_id>>
                    /\ procs' = [procs EXCEPT ![p] =
                          Respond(p, "failed", "INTERNAL_ERROR")]
               ELSE /\ users' = append_csv(users, user_data)
                    /\ audit_logs' = log_audit(audit_logs, user_id,
                                         "user_registered", 0, f = "audit")
                    /\ next_id' = next_id + 1
                    /\ procs' = [procs EXCEPT ![p] =
                          [Respond(p, "success", "") EXCEPT !.user_id = user_id]]
            /\ faults' = Spend(f)
    /\ UNCHANGED <<beneficiaries, transactions, today, budget>>
    /\ UNCHANGED store

(***************************************************************************)
(* The storage backends on one table of two columns.  A DataFrame is a     *)
(* sequence of rows, a row maps each column to a value; the file holds the *)
(* text of each cell (the header line is always there after                *)
(* initialize_csv_files).                                                  *)
(***************************************************************************)
Columns == {"account_number", "description"}

\* the rows callers hand to append_csv
RowInputs ==
    [account_number : {"1002", "007"}, description : {"lunch", "", "NA", "7"}]

\* DataFrame.to_csv(index=False)
to_csv(data) ==
    [i \in 1..Len(data) |-> [c \in Columns |-> data[i][c].text]]

\* pandas.read_csv
read_csv(text) ==
    [i \in 1..Len(text) |->
        [c \in Columns |->
            parse_cell(text[i][c],
                       infer_dtype([k \in 1..Len(text) |-> text[k][c]]))]]

\* pd.DataFrame([sanitized_data])[0]
new_row(row) == [c \in Columns |-> py_str(sanitize_csv_data(row[c]))]

\* LocalStorage.append_csv: read, concat, write_csv (backup, to_csv)
LocalStorage_append_csv(p, row) ==
    /\ procs[p].pc = "idle"
    /\ budget > 0
    /\ LET updated_df == Append(read_csv(file), new_row(row))
       IN /\ file' = to_csv(updated_df)
          /\ procs' = [procs EXCEPT ![p] =
                [@ EXCEPT !.pc = "ls_wrote", !.op = "append_csv",
                          !.data = updated_df]]
    /\ backups' = backups + 1
    /\ budget' = budget - 1
    /\ UNCHANGED <<tables, today, faults, next_id, lease, manager>>

\* LocalStorage.delete_row with condition {description: value}
LocalStorage_delete_row(p, value) ==
    /\ procs[p].pc = "idle"
    /\ budget > 0
    /\ LET df == read_csv(file)
           mask == [i \in 1..Len(df) |-> df[i].description = py_str(value)]
           df_filtered == SelectRows(df, [i \in 1..Len(df) |-> ~mask[i]])
       IN IF df = <<>> \/ \A i \in 1..Len(df) : ~mask[i]
          THEN /\ procs' = [procs EXCEPT ![p] =
                     [@ EXCEPT !.pc = "done", !.op = "delete_row",
                               !.status = "failed"]]
               /\ UNCHANGED <<file, backups>>
          ELSE /\ file' = to_csv(df_filtered)
               /\ backups' = backups + 1
               /\ procs' = [procs EXCEPT ![p] =
                     [@ EXCEPT !.pc = "ls_wrote", !.op = "delete_row",
                               !.data = df_filtered]]
    /\ budget' = budget - 1
    /\ UNCHANGED <<tables, today, faults, next_id, lease, manager>>

\* LocalStorage.update_row with condition {description: value} and updates
\* {description: new_value}
LocalStorage_update_row(p, value, new_value) ==
    /\ procs[p].pc = "idle"
    /\ budget > 0
    /\ LET df == read_csv(file)
           mask == [i \in 1..Len(df) |-> df[i].description = py_str(value)]
           updated == [i \in 1..Len(df) |->
                          IF mask[i]
                          THEN [df[i] EXCEPT !.description =
                                   py_str(sanitize_csv_data(new_value))]
                          ELSE df[i]]
       IN IF df = <<>> \/ \A i \in 1..Len(df) : ~mask[i]
          THEN /\ procs' = [procs EXCEPT ![p] =
                     [@ EXCEPT !.pc = "done", !.op = "update_row",
                               !.status = "failed"]]
               /\ UNCHANGED <<file, backups>>
          ELSE /\ file' = to_csv(updated)
               /\ backups' = backups + 1
               /\ procs' = [procs EXCEPT ![p] =
                     [@ EXCEPT !.pc = "ls_wrote", !.op = "update_row",
                               !.data = updated]]
    /\ budget' = budget - 1
    /\ UNCHANGED <<tables, today, faults, next_id, lease, manager>>

\* LocalStorage.read_csv right after the write returned True
LocalStorage_read_csv(p) ==
    /\ procs[p].pc = "ls_wrote"
    /\ procs' = [procs EXCEPT ![p] =
          [@ EXCEPT !.pc = "done", !.status = "success",
                    !.df = read_csv(file)]]
    /\ UNCHANGED <<tables, today, faults, budget, next_id, store>>

\* AzureStorage.append_csv or read_csv is called
AzureStorage_Call(p, op, row) ==
    /\ procs[p].pc = "idle"
    /\ budget > 0
    /\ procs' = [procs EXCEPT ![p] =
          [@ EXCEPT !.pc = "az_read", !.op = op, !.data = <<new_row(row)>>]]
    /\ budget' = budget - 1
    /\ UNCHANGED <<tables, today, faults, next_id, store>>

\* AzureStorage.read_csv: download_blob and parse; no lease is asked for
AzureStorage_read_csv(p) ==
    /\ procs[p].pc = "az_read"
    /\ LET df == read_csv(file)
       IN procs' = [procs EXCEPT ![p] =
             IF procs[p].op = "read_csv"
             THEN [@ EXCEPT !.pc = "done", !.status = "success", !.df = df]
             ELSE [@ EXCEPT !.pc = "az_backup", !.df = df,
                            !.data = df \o procs[p].data]]
    /\ UNCHANGED <<tables, today, faults, budget, next_id, store>>

\* AzureStorage.write_csv lines 116-125: the backup copy of the blob
AzureStorage_write_csv_backup(p) ==
    /\ procs[p].pc = "az_backup"
    /\ backups' = backups + 1
    /\ procs' = [procs EXCEPT ![p] = [@ EXCEPT !.pc = "az_lease"]]
    /\ UNCHANGED <<tables, today, faults, budget, next_id, file, lease, manager>>

\* AzureStorage.write_csv lines 127-148: _blob_lease is a coroutine function
\* and its result is not awaited, so "async with" raises TypeError before
\* AzureBlobLease.__aenter__ runs; write_csv raises StorageError
AzureStorage_write_csv_lease(p) ==
    /\ procs[p].pc = "az_lease"
    /\ procs' = [procs EXCEPT ![p] = Respond(p, "failed", "StorageError")]
    /\ UNCHANGED <<tables, today, faults, budget, next_id, store>>

(***************************************************************************)
(* StorageManager: the backend is chosen when the manager is constructed.  *)
(* manager.storage is self._storage, manager.errors the constructors that  *)
(* raised, in order.                                                       *)
(***************************************************************************)
\* a manager whose LocalStorage() was constructed at the first attempt
LocalManager ==
    [pc |-> "ready", use_local_storage |-> TRUE, storage |-> "local",
     errors |-> <<>>, azure_storage_connection_string |-> "None",
     original_setting |-> TRUE, result |-> "none", pre |-> <<>>]

\* a fallback that forgets the assignment to self._storage
initialize_storage_fallback_unassigned(m, raises) ==
    IF raises
    THEN [m EXCEPT !.pc = "raised", !.errors = Append(@, "LocalStorage")]
    ELSE [m EXCEPT !.pc = "ready"]

\* _initialize_storage lines 41-47: the except branch; raises: LocalStorage()
\* raised
initialize_storage_fallback(m, raises) ==
    IF raises
    THEN [m EXCEPT !.pc = "raised", !.errors = Append(@, "LocalStorage")]
    ELSE [m EXCEPT !.pc = "ready", !.storage = "local"]

\* _initialize_storage lines 32-40: the backend the settings ask for
StorageManager_initialize_storage ==
    /\ manager.pc = "new"
    /\ \E raises \in BOOLEAN :
         LET backend == IF manager.use_local_storage THEN "local" ELSE "azure"
             constructor == IF manager.use_local_storage THEN "LocalStorage"
                            ELSE "AzureStorage"
         IN manager' =
              IF raises
              THEN [manager EXCEPT !.pc = "fallback",
                                   !.errors = Append(@, constructor)]
              ELSE [manager EXCEPT !.pc = "ready", !.storage = backend]
    /\ UNCHANGED <<tables, procs, today, faults, budget, next_id,
                   file, lease, backups>>

\* _initialize_storage lines 41-47: fall back to LocalStorage()
StorageManager_fallback ==
    /\ manager.pc = "fallback"
    /\ \E raises \in BOOLEAN :
         manager' = initialize_storage_fallback(manager, raises)
    /\ UNCHANGED <<tables, procs, today, faults, budget, next_id,
                   file, lease, backups>>

\* StorageManager.append_csv: the call goes to the backend that was set
StorageManager_append_csv(p, row) ==
    /\ manager.pc = "ready"
    /\ IF manager.storage = "local"
       THEN LocalStorage_append_csv(p, row)
       ELSE AzureStorage_Call(p, "append_csv", row)

(***************************************************************************)
(* Paginated listings.  A listing answers [status, data, total_pages];     *)
(* data is the page of rows.                                               *)
(***************************************************************************)
PageSizes == {1, 2}

Listings == {"list_beneficiaries", "get_balance_history",
             "get_transaction_history"}

\* DataFrame.sort_values(column, ascending=False): rows of equal key keep
\* the order of the table
RECURSIVE sort_values_descending(_, _)
sort_values_descending(rows, column) ==
    IF rows = <<>> THEN <<>>
    ELSE LET sorted == sort_values_descending(Tail(rows), column)
             row == Head(rows)
             n == Cardinality({i \in 1..Len(sorted) :
                                  sorted[i][column] > row[column]})
         IN SubSeq(sorted, 1, n) \o <<row>> \o SubSeq(sorted, n + 1, Len(sorted))

\* DataFrame.iloc[start_idx:end_idx]
iloc(rows, start_idx, end_idx) ==
    SubSeq(rows, start_idx + 1,
           IF end_idx < Len(rows) THEN end_idx ELSE Len(rows))

\* the slice of one page and the page count, as the three listings compute
\* them
paginate(rows, page, page_size) ==
    LET total_items == Len(rows)
        start_idx == (page - 1) * page_size
        end_idx == start_idx + page_size
    IN [status |-> "success", error_code |-> "",
        data |-> iloc(rows, start_idx, end_idx),
        total_pages |-> (total_items + page_size - 1) \div page_size]

EmptyPage == [status |-> "success", error_code |-> "", data |-> <<>>,
              total_pages |-> 0]

FailedPage == [status |-> "failed", error_code |-> "INTERNAL_ERROR",
               data |-> <<>>, total_pages |-> 0]

\* BeneficiaryService.list_beneficiaries without search_name and bank_filter
list_beneficiaries(rows, uid, page, page_size) ==
    IF rows = <<>> THEN EmptyPage
    ELSE LET user_beneficiaries ==
                 SelectRows(rows, [i \in 1..Len(rows) |->
                     rows[i].owner_user_id = uid])
         IN paginate(sort_values_descending(user_beneficiaries, "added_at"),
                     page, page_size)

\* BalanceService.get_balance_history without date and type filters; the
\* timestamp column is the day of the row
get_balance_history(rows, uid, page, page_size) ==
    IF rows = <<>> THEN EmptyPage
    ELSE LET user_transactions ==
                 SelectRows(rows, [i \in 1..Len(rows) |->
                     \/ rows[i].to_user_id = uid /\ rows[i].from_user_id = "SYSTEM"
                     \/ rows[i].from_user_id = uid /\ rows[i].to_user_id = "SYSTEM"])
         IN paginate(sort_values_descending(user_transactions, "day"),
                     page, page_size)

\* TransactionService.get_transaction_history without filters: the columns
\* it reads are looked up in the DataFrame, a missing one raises KeyError,
\* which the except branch answers with INTERNAL_ERROR
get_transaction_history(rows, uid, page, page_size) ==
    IF rows = <<>> THEN EmptyPage
    ELSE IF "sender_user_id" \notin DOMAIN rows[1] THEN FailedPage
    ELSE LET user_transactions ==
                 SelectRows(rows, [i \in 1..Len(rows) |->
                     rows[i]["sender_user_id"] = uid])
         IN IF "created_at" \notin DOMAIN rows[1] THEN FailedPage
            ELSE paginate(sort_values_descending(user_transactions,
                                                 "created_at"),
                          page, page_size)

\* the answer of one listing request on the tables as they are
listing(op, uid, page, page_size) ==
    IF op = "list_beneficiaries"
    THEN list_beneficiaries(beneficiaries, uid, page, page_size)
    ELSE IF op = "get_balance_history"
    THEN get_balance_history(transactions, uid, page, page_size)
    ELSE get_transaction_history(transactions, uid, page, page_size)

\* a client starts to read a listing: page 1 is asked for next
Listing_Start(p, op, uid, page_size) ==
    /\ procs[p].pc = "idle"
    /\ budget > 0
    /\ procs' = [procs EXCEPT ![p] =
          [@ EXCEPT !.pc = "pg_page", !.op = op, !.user_id = uid,
                    !.page = 1, !.page_size = page_size, !.data = <<>>,
                    !.pre = <<users, beneficiaries, transactions, audit_logs>>]]
    /\ budget' = budget - 1
    /\ UNCHANGED <<tables, today, faults, next_id>>
    /\ UNCHANGED store

\* one request for the current page; the client stops at the last page or
\* at a failed answer
Listing_Page(p) ==
    /\ procs[p].pc = "pg_page"
    /\ LET me == procs[p]
           r == listing(me.op, me.user_id, me.page, me.page_size)
       IN procs' = [procs EXCEPT ![p] =
             IF r.status = "failed"
             THEN Respond(p, "failed", r.error_code)
             ELSE IF me.page >= r.total_pages
             THEN [Respond(p, "success", "") EXCEPT !.data = me.data \o r.data]
             ELSE [me EXCEPT !.data = me.data \o r.data, !.page = me.page + 1]]
    /\ UNCHANGED <<tables, today, faults, budget, next_id>>
    /\ UNCHANGED store

(***************************************************************************)
(* Specifications.                                                         *)
(***************************************************************************)
InitUsers(b) ==
    << [user_id |-> "u1", username |-> "bob", account_number |-> "1001",
        balance |-> b, daily_limit |-> default_daily_limit],
       [user_id |-> "u2", username |-> "ann", account_number |-> "1002",
        balance |-> 5000, daily_limit |-> default_daily_limit] >>

InitBeneficiaries ==
    << [owner_user_id |-> "u1", beneficiary_id |-> "b1", name |-> "ann",
        account_number |-> "1002", added_at |-> 0] >>

\* the state after start-up: registered users, one saved beneficiary, no
\* transfer made yet; calls is the number of requests that will arrive,
\* active the workers that serve them, storage_faults the number of storage
\* calls that will raise
InitBank(calls, active, storage_faults) ==
    /\ \E b \in InitBalances : users = InitUsers(b)
    /\ beneficiaries = InitBeneficiaries
    /\ transactions = <<>>
    /\ audit_logs = <<>>
    /\ procs = [p \in Procs |-> IF p \in active THEN IdleProc
                                ELSE [IdleProc EXCEPT !.pc = "off"]]
    /\ today = 1
    /\ faults = storage_faults
    /\ budget = calls
    /\ next_id = 1
    /\ file = <<>>
    /\ lease = ""
    /\ backups = 0
    /\ manager = LocalManager

\* requests served concurrently, every storage call succeeding
Init == InitBank(MaxConcurrentCalls, Procs, 0)

\* requests served one at a time: one worker takes them all
InitSeq == InitBank(MaxCalls, {"p1"}, MaxFaults)

Step(p) ==
    \/ \E uid \in UserIds, bid \in BeneficiaryIds, amt \in Amounts :
          SendMoney_Start(p, uid, bid, amt)
    \/ SendMoney_Validate(p)
    \/ SendMoney_CheckLimit(p)
    \/ SendMoney_Debit(p)
    \/ SendMoney_UpdateLimit(p)
    \/ SendMoney_Rollback(p)
    \/ SendMoney_Append(p)
    \/ SendMoney_Finish(p)
    \/ Return(p)

\* requests served concurrently
Next == (\E p \in Procs : Step(p)) \/ Tick

Spec == Init /\ [][Next]_vars

SpecSeq == InitSeq /\ [][Next]_vars

(***************************************************************************)
(* Properties of send_money.                                               *)
(***************************************************************************)
\* the tables as they were when the call of process p started
PreUsers(p) == procs[p].pre[1]

PreTransactions(p) == procs[p].pre[3]

Finished(p, op) == procs[p].pc = "done" /\ procs[p].op = op

\* the registered user who owns the account a beneficiary row names
receiver_of(rows, ben) ==
    iloc0(SelectRows(rows, [i \in 1..Len(rows) |->
              rows[i].account_number = ben[1].account_number]))

\* C1: after a successful send_money of amount A (calls served one at a
\* time) the sender's stored balance is lower by exactly A and the
\* receiver's stored balance is higher by exactly A
C1_TransferMovesAmount ==
    \A p \in Procs :
        (Finished(p, "send_money") /\ procs[p].status = "success") =>
            LET me == procs[p]
                rcv == receiver_of(users, me.beneficiary)
            IN /\ user_row(users, me.user_id).balance
                    = user_row(PreUsers(p), me.user_id).balance - me.amount
               /\ rcv # <<>> =>
                    rcv[1].balance
                      = user_row(PreUsers(p), rcv[1].user_id).balance + me.amount

\* C2: whenever send_money answers "failed" (calls served one at a time),
\* the sender's stored balance equals its value before the call
C2_FailedTransferRestoresBalance ==
    \A p \in Procs :
        (/\ Finished(p, "send_money")
         /\ procs[p].status = "failed"
         /\ get_user_by_id(PreUsers(p), procs[p].user_id) # <<>>) =>
            user_row(users, procs[p].user_id).balance
              = user_row(PreUsers(p), procs[p].user_id).balance

\* the case of C3: a finished send_money call whose amount exceeds the
\* balance the sender had in users.csv when the call started
ExceedsBalance(p) ==
    /\ Finished(p, "send_money")
    /\ get_user_by_id(PreUsers(p), procs[p].user_id) # <<>>
    /\ procs[p].amount > user_row(PreUsers(p), procs[p].user_id).balance

RacedTransfers(p, q) ==
    /\ p # q
    /\ Finished(p, "send_money") /\ procs[p].status = "success"
    /\ Finished(q, "send_money") /\ procs[q].status = "success"
    /\ procs[p].user_id = procs[q].user_id
    /\ user_balance(procs[p].user) = user_balance(procs[q].user)

\* C4: when two concurrent send_money calls of one sender both read the
\* same stored balance B and both answer success, the stored balance left
\* behind is B minus one of the two amounts: only one debit is reflected
C4_LostUpdate ==
    \A p, q \in Procs :
        RacedTransfers(p, q) =>
            user_row(users, procs[p].user_id).balance
              \in {user_balance(procs[p].user) - procs[p].amount,
                   user_balance(procs[q].user) - procs[q].amount}

C4_Witness ==
    \E p, q \in Procs :
        /\ RacedTransfers(p, q)
        /\ user_row(users, procs[p].user_id).balance
             = user_balance(procs[q].user) - procs[q].amount
        /\ user_row(users, procs[p].user_id).balance
             > user_balance(procs[p].user) - procs[p].amount - procs[q].amount

\* the sum of the successful transfers of user uid dated day
DayTotal(uid, day) ==
    SumAmount(SelectRows(transactions, [i \in 1..Len(transactions) |->
        /\ transactions[i].from_user_id = uid
        /\ transactions[i].day = day
        /\ transactions[i].status = "success"]))

\* C5: for every user and every day, the sum of the user's successful
\* transfers of that day never exceeds the user's daily limit
C5_DailyLimitRespected ==
    \A i \in 1..Len(users), day \in 1..MaxDay :
        DayTotal(users[i].user_id, day) <= users[i].daily_limit

\* C8: a send_money call that answers "failed" (calls served one at a time)
\* leaves the transactions table as it was
C8_FailedTransferWritesNoRow ==
    \A p \in Procs :
        (Finished(p, "send_money") /\ procs[p].status = "failed") =>
            transactions = PreTransactions(p)

(***************************************************************************)
(* Beneficiary management, requests served one at a time.                  *)
(***************************************************************************)
BeneficiaryStep(p) ==
    \/ \E uid \in Owners, name \in Names, acct \in AccountNumbers :
          AddBeneficiary_Check(p, uid, name, acct)
    \/ AddBeneficiary_Append(p)
    \/ \E uid \in Owners, bid \in {"b1", "b2"} : RemoveBeneficiary_Find(p, uid, bid)
    \/ RemoveBeneficiary_Delete(p)
    \/ \E uid \in Owners, bid \in {"b1", "b2"},
          name \in Names \cup {""}, acct \in AccountNumbers \cup {""} :
          UpdateBeneficiary_Check(p, uid, bid, name, acct)
    \/ UpdateBeneficiary_Write(p)
    \/ Return(p)

NextBen == \E p \in Procs : BeneficiaryStep(p)

SpecBen == InitSeq /\ [][NextBen]_vars

\* C6: with requests served one at a time, no two beneficiary rows have the
\* same (owner_user_id, name) and no two have the same
\* (owner_user_id, account_number)
C6_BeneficiariesUnique ==
    \A i, j \in 1..Len(beneficiaries) :
        (i # j /\ beneficiaries[i].owner_user_id = beneficiaries[j].owner_user_id) =>
            /\ beneficiaries[i].name # beneficiaries[j].name
            /\ beneficiaries[i].account_number # beneficiaries[j].account_number

\* C7: add_beneficiary for an owner who already has a beneficiary with the
\* same account number answers "failed" and leaves the beneficiaries table
\* unchanged
C7_DuplicateAccountRejected ==
    \A p \in Procs :
        (/\ Finished(p, "add_beneficiary")
         /\ \E i \in 1..Len(procs[p].pre[2]) :
               /\ procs[p].pre[2][i].owner_user_id = procs[p].user_id
               /\ procs[p].pre[2][i].account_number = procs[p].account_number) =>
            /\ procs[p].status = "failed"
            /\ beneficiaries = procs[p].pre[2]

\* the beneficiary_id of the call named, when the call started, rows of
\* other owners only
ForeignBeneficiary(p) ==
    LET rows == procs[p].pre[2]
    IN /\ \E i \in 1..Len(rows) :
             rows[i].beneficiary_id = procs[p].beneficiary_id
       /\ \A i \in 1..Len(rows) :
             rows[i].beneficiary_id = procs[p].beneficiary_id =>
                 rows[i].owner_user_id # procs[p].user_id

\* C15: update_beneficiary and remove_beneficiary called by a user on a
\* beneficiary_id whose row belongs to another owner answer "failed" and
\* leave the beneficiaries table unchanged
C15_ForeignBeneficiaryUntouched ==
    \A p \in Procs :
        (/\ Finished(p, "update_beneficiary") \/ Finished(p, "remove_beneficiary")
         /\ ForeignBeneficiary(p)) =>
            /\ procs[p].status = "failed"
            /\ beneficiaries = procs[p].pre[2]

\* u2 has asked to rename the beneficiary b1 of u1 and has been answered
C15_Witness ==
    \E p \in Procs :
        /\ Finished(p, "update_beneficiary")
        /\ procs[p].user_id = "u2"
        /\ procs[p].name # ""
        /\ ForeignBeneficiary(p)
        /\ procs[p].error_code = "BENEFICIARY_NOT_FOUND"

(***************************************************************************)
(* The local backend, calls made one after the other.                      *)
(***************************************************************************)
LocalStorageStep(p) ==
    \/ \E row \in RowInputs : LocalStorage_append_csv(p, row)
    \/ \E value \in {"lunch", "7"} : LocalStorage_delete_row(p, value)
    \/ LocalStorage_read_csv(p)
    \/ Return(p)

NextCsv == \E p \in Procs : LocalStorageStep(p)

SpecCsv == InitSeq /\ [][NextCsv]_vars

\* C10: read_csv right after a write_csv that returned True returns the
\* DataFrame that was written: as many rows, in the same order, with the
\* same value in every cell
C10_ReadReturnsWritten ==
    \A p \in Procs :
        (procs[p].pc = "done" /\ procs[p].status = "success"
            /\ procs[p].op \in {"append_csv", "delete_row"}) =>
            procs[p].df = procs[p].data

(***************************************************************************)
(* The blob backend, calls made concurrently.                              *)
(***************************************************************************)
AzureStorageStep(p) ==
    \/ \E op \in {"read_csv", "append_csv"}, row \in RowInputs :
          AzureStorage_Call(p, op, row)
    \/ AzureStorage_read_csv(p)
    \/ AzureStorage_write_csv_backup(p)
    \/ AzureStorage_write_csv_lease(p)
    \/ Return(p)

NextLease == \E p \in Procs : AzureStorageStep(p)

SpecLease == Init /\ [][NextLease]_vars

\* C9: in the blob backend a write_csv takes the lease on the table for its
\* upload, and while one operation holds the lease no other operation is
\* reading or writing that table
C9_LeaseSerializesAccess ==
    /\ [](\A p, q \in Procs :
            (lease = p /\ q # p) =>
                procs[q].pc \notin {"az_read", "az_backup", "az_lease"})
    /\ [][\A p \in Procs :
            (procs[p].pc = "az_lease" /\ procs'[p].pc # "az_lease") =>
                lease' = p]_vars

(***************************************************************************)
(* Deposits, withdrawals and transfers of one user, served concurrently.   *)
(***************************************************************************)
BalanceStep(p) ==
    \/ \E amt \in DepositAmounts : Deposit_Start(p, "u1", amt)
    \/ Deposit_Update(p)
    \/ Deposit_Append(p)
    \/ \E amt \in WithdrawAmounts : Withdraw_Start(p, "u1", amt)
    \/ Withdraw_Update(p)
    \/ Withdraw_Append(p)
    \/ \E amt \in {4000, 20000} : SendMoney_Start(p, "u1", "b1", amt)
    \/ SendMoney_Validate(p)
    \/ SendMoney_CheckLimit(p)
    \/ SendMoney_Debit(p)
    \/ SendMoney_UpdateLimit(p)
    \/ SendMoney_Rollback(p)
    \/ SendMoney_Append(p)
    \/ SendMoney_Finish(p)
    \/ Return(p)

NextBal == \E p \in Procs : BalanceStep(p)

InitBal == InitBank(MaxConcurrentCalls, Procs, MaxFaults)

SpecBal == InitBal /\ [][NextBal]_vars

\* C14: starting from non-negative balances, no stored balance is negative
\* in any reachable state of concurrent deposits, withdrawals and transfers,
\* compensating rollback writes included
C14_BalancesNonNegative ==
    \A i \in 1..Len(users) : users[i].balance >= 0

\* a rollback write and a concurrent withdrawal have both been applied
C14_Witness ==
    /\ \E i \in 1..Len(audit_logs) :
          audit_logs[i].action = "balance_transfer_rollback"
    /\ \E i \in 1..Len(audit_logs) : audit_logs[i].action = "balance_withdraw"
    /\ \E p, q \in Procs :
          /\ p # q
          /\ procs[p].op = "send_money" /\ procs[p].pc = "done"
          /\ procs[q].op = "withdraw_money" /\ procs[q].pc = "done"
          /\ procs[q].status = "success"
          /\ user_balance(procs[p].user) = user_balance(procs[q].user)
    /\ \A i \in 1..Len(users) : users[i].balance >= 0

\* the only two calls made so far, both answered and none hit by a storage
\* error: a successful deposit_money p and a send_money q of the same user
\* that failed after its debit and wrote the rollback
DepositAndRolledBackTransfer(p, q) ==
    /\ p # q
    /\ budget + 2 = MaxConcurrentCalls
    /\ faults = MaxFaults
    /\ Finished(p, "deposit_money") /\ procs[p].status = "success"
    /\ Finished(q, "send_money")
    /\ procs[q].error_code = "LIMIT_UPDATE_FAILED"
    /\ procs[q].user_id = procs[p].user_id

\* the user's balance before either call: the call that started first saw
\* an empty audit log
BalanceBefore(p, q) ==
    IF procs[p].pre[4] = <<>>
    THEN user_row(PreUsers(p), procs[p].user_id).balance
    ELSE user_row(PreUsers(q), procs[p].user_id).balance

\* C20: for every interleaving of a successful deposit_money with a
\* send_money of the same user that fails and rolls back, the stored balance
\* left behind is the balance before the two calls plus the deposited amount
C20_DepositNotLost ==
    \A p, q \in Procs :
        DepositAndRolledBackTransfer(p, q) =>
            user_row(users, procs[p].user_id).balance
              = BalanceBefore(p, q) + procs[p].amount

(***************************************************************************)
(* Registration, limit update, deposit, withdrawal and transfer served     *)
(* concurrently.                                                           *)
(***************************************************************************)
UsersStep(p) ==
    \/ \E username \in Usernames, account_number \in RegistrationAccounts :
          Register_Start(p, username, account_number)
    \/ Register_CheckAccount(p)
    \/ Register_Append(p)
    \/ \E new_daily_limit \in NewDailyLimits :
          UpdateDailyLimit_Start(p, "u1", new_daily_limit)
    \/ UpdateDailyLimit_Update(p)
    \/ \E amt \in DepositAmounts : Deposit_Start(p, "u1", amt)
    \/ Deposit_Update(p)
    \/ Deposit_Append(p)
    \/ \E amt \in DepositAmounts : Withdraw_Start(p, "u1", amt)
    \/ Withdraw_Update(p)
    \/ Withdraw_Append(p)
    \/ \E amt \in DepositAmounts : SendMoney_Start(p, "u1", "b1", amt)
    \/ SendMoney_Validate(p)
    \/ SendMoney_CheckLimit(p)
    \/ SendMoney_Debit(p)
    \/ SendMoney_UpdateLimit(p)
    \/ SendMoney_Rollback(p)
    \/ SendMoney_Append(p)
    \/ SendMoney_Finish(p)
    \/ Return(p)

NextUsers == \E p \in Procs : UsersStep(p)

\* u1 starts with the larger of the balances
InitUsersTable == InitBal /\ users = InitUsers(30000)

SpecUsers == InitUsersTable /\ [][NextUsers]_vars

C17_SuccessIsAudited ==
    \A p \in Procs :
        (Finished(p, "send_money") /\ procs[p].status = "success") =>
            \E i \in 1..Len(audit_logs) :
                audit_logs[i] = create_audit_log_entry(procs[p].user_id,
                                    "money_transfer", procs[p].transaction_id)

(***************************************************************************)
(* One user's transfers of a day, requests served one at a time, every     *)
(* storage call succeeding.                                                *)
(***************************************************************************)
TransferAmounts == {500, 20000}

CountStep(p) ==
    \/ \E amt \in TransferAmounts : SendMoney_Start(p, "u1", "b1", amt)
    \/ SendMoney_Validate(p)
    \/ SendMoney_CheckLimit(p)
    \/ SendMoney_Debit(p)
    \/ SendMoney_UpdateLimit(p)
    \/ SendMoney_Rollback(p)
    \/ SendMoney_Append(p)
    \/ SendMoney_Finish(p)
    \/ Return(p)

NextCount == \E p \in Procs : CountStep(p)

\* one request more than the daily count allows
InitCount == InitBank(daily_transaction_limit + 1, {"p1"}, 0)

SpecCount == InitCount /\ [][NextCount]_vars

\* the number of successful transfers of user uid dated day
DayCount(uid, day) ==
    Len(SelectRows(transactions, [i \in 1..Len(transactions) |->
        /\ transactions[i].from_user_id = uid
        /\ transactions[i].to_user_id # "SYSTEM"
        /\ transactions[i].day = day
        /\ transactions[i].status = "success"]))

\* C16: for every user and every day, the number of the user's successful
\* transfers of that day never exceeds daily_transaction_limit
C16_DailyCountRespected ==
    \A i \in 1..Len(users), day \in 1..MaxDay :
        DayCount(users[i].user_id, day) <= daily_transaction_limit

(***************************************************************************)
(* The POST /transactions/send route over the service, requests served one *)
(* at a time.                                                              *)
(***************************************************************************)
\* BaseService.create_success_response / create_error_response: the dict
\* the service returns (message and timestamp left out)
create_response(me) ==
    IF me.status = "success"
    THEN [status |-> "success", data |-> me.transaction_id]
    ELSE [status |-> "failed", error_code |-> me.error_code]

\* transaction_router.send_money lines 67-114 on the dict the service
\* returned: result["success"] of a dict without that key raises KeyError,
\* which the except Exception branch turns into a 500
send_money_route(result) ==
    IF "success" \notin DOMAIN result THEN 500
    ELSE IF ~result["success"]
    THEN IF result["error_code"] = "INSUFFICIENT_BALANCE" THEN 402
         ELSE IF result["error_code"] = "BENEFICIARY_NOT_FOUND" THEN 404
         ELSE IF result["error_code"] = "DAILY_LIMIT_EXCEEDED" THEN 429
         ELSE IF result["error_code"] = "USER_NOT_FOUND" THEN 404
         ELSE 400
    ELSE 201

\* the route has the result of the service and picks the HTTP status
TransactionRouter_send_money(p) ==
    /\ procs[p].pc = "done"
    /\ procs[p].op = "send_money"
    /\ procs' = [procs EXCEPT ![p] =
          [procs[p] EXCEPT !.pc = "answered",
               !.http_status = send_money_route(create_response(procs[p]))]]
    /\ UNCHANGED <<tables, today, faults, budget, next_id>>
    /\ UNCHANGED store

\* the HTTP response has been sent
TransactionRouter_Return(p) ==
    /\ procs[p].pc = "answered"
    /\ procs' = [procs EXCEPT ![p] = IdleProc]
    /\ UNCHANGED <<tables, today, faults, budget, next_id>>
    /\ UNCHANGED store

RouteStep(p) ==
    \/ \E uid \in UserIds, bid \in BeneficiaryIds, amt \in Amounts :
          SendMoney_Start(p, uid, bid, amt)
    \/ SendMoney_Validate(p)
    \/ SendMoney_CheckLimit(p)
    \/ SendMoney_Debit(p)
    \/ SendMoney_UpdateLimit(p)
    \/ SendMoney_Rollback(p)
    \/ SendMoney_Append(p)
    \/ SendMoney_Finish(p)
    \/ TransactionRouter_send_money(p)
    \/ TransactionRouter_Return(p)

NextRoute == \E p \in Procs : RouteStep(p)

SpecRoute == InitSeq /\ [][NextRoute]_vars

\* C18: the route answers 201 when the service reports success, 402 for
\* INSUFFICIENT_BALANCE, 404 for BENEFICIARY_NOT_FOUND and USER_NOT_FOUND,
\* 429 for DAILY_LIMIT_EXCEEDED and 400 for every other failed result
C18_RouteStatus ==
    \A p \in Procs :
        procs[p].pc = "answered" =>
            procs[p].http_status =
                IF procs[p].status = "success" THEN 201
                ELSE IF procs[p].error_code = "INSUFFICIENT_BALANCE" THEN 402
                ELSE IF procs[p].error_code \in {"BENEFICIARY_NOT_FOUND",
                                                 "USER_NOT_FOUND"} THEN 404
                ELSE IF procs[p].error_code = "DAILY_LIMIT_EXCEEDED" THEN 429
                ELSE 400

(***************************************************************************)
(* The StorageManager from its construction on, calls made one after the   *)
(* other.                                                                  *)
(***************************************************************************)
ManagerStep(p) ==
    \/ \E row \in RowInputs : StorageManager_append_csv(p, row)
    \/ LocalStorage_read_csv(p)
    \/ AzureStorage_read_csv(p)
    \/ AzureStorage_write_csv_backup(p)
    \/ AzureStorage_write_csv_lease(p)
    \/ Return(p)

NextManager ==
    \/ StorageManager_initialize_storage
    \/ StorageManager_fallback
    \/ \E p \in Procs : ManagerStep(p)

\* StorageManager.__init__ lines 25-28: no backend yet; the settings say
\* which one to construct
InitManager ==
    /\ users = <<>>
    /\ beneficiaries = <<>>
    /\ transactions = <<>>
    /\ audit_logs = <<>>
    /\ procs = [p \in Procs |-> IF p = "p1" THEN IdleProc
                                ELSE [IdleProc EXCEPT !.pc = "off"]]
    /\ today = 1
    /\ faults = 0
    /\ budget = MaxCalls
    /\ next_id = 1
    /\ file = <<>>
    /\ lease = ""
    /\ backups = 0
    /\ \E b \in BOOLEAN :
          manager = [LocalManager EXCEPT !.pc = "new",
                                         !.use_local_storage = b,
                                         !.storage = "None"]

SpecManager == InitManager /\ [][NextManager]_vars

\* C19: when AzureStorage() raised during initialisation the manager that
\* comes out of it uses the local backend; initialisation has raised
\* StorageError only when LocalStorage() raised in the fallback; after a
\* successful initialisation a backend is set
C19_FallsBackToLocal ==
    /\ (manager.pc = "ready" /\ manager.errors # <<>>
           /\ manager.errors[1] = "AzureStorage") => manager.storage = "local"
    /\ manager.pc = "raised" =>
           /\ Len(manager.errors) = 2
           /\ manager.errors[2] = "LocalStorage"
    /\ manager.pc = "ready" => manager.storage \in {"local", "azure"}

\* AzureStorage() raised, the manager fell back and has served a write
C19_Witness ==
    /\ manager.pc = "ready"
    /\ manager.errors = <<"AzureStorage">>
    /\ manager.storage = "local"
    /\ file # <<>>

(***************************************************************************)
(* Listings read page by page between the writes of one user, requests     *)
(* served one at a time, every storage call succeeding.                    *)
(***************************************************************************)
PageStep(p) ==
    \/ \E name \in Names, acct \in AccountNumbers :
          AddBeneficiary_Check(p, "u1", name, acct)
    \/ AddBeneficiary_Append(p)
    \/ \E amt \in DepositAmounts : Deposit_Start(p, "u1", amt)
    \/ Deposit_Update(p)
    \/ Deposit_Append(p)
    \/ \E amt \in DepositAmounts : Withdraw_Start(p, "u1", amt)
    \/ Withdraw_Update(p)
    \/ Withdraw_Append(p)
    \/ \E amt \in DepositAmounts : SendMoney_Start(p, "u1", "b1", amt)
    \/ SendMoney_Validate(p)
    \/ SendMoney_CheckLimit(p)
    \/ SendMoney_Debit(p)
    \/ SendMoney_UpdateLimit(p)
    \/ SendMoney_Append(p)
    \/ SendMoney_Finish(p)
    \/ \E op \in Listings, page_size \in PageSizes :
          Listing_Start(p, op, "u1", page_size)
    \/ Listing_Page(p)
    \/ Return(p)

NextPage == Tick \/ \E p \in Procs : PageStep(p)

InitPage == InitBank(MaxCalls, {"p1"}, 0)

SpecPage == InitPage /\ [][NextPage]_vars

\* the rows of user uid a listing is about, newest first
MatchingRows(op, uid) ==
    IF op = "list_beneficiaries"
    THEN sort_values_descending(
             SelectRows(beneficiaries, [i \in 1..Len(beneficiaries) |->
                 beneficiaries[i].owner_user_id = uid]), "added_at")
    ELSE IF op = "get_balance_history"
    THEN sort_values_descending(
             SelectRows(transactions, [i \in 1..Len(transactions) |->
                 \/ /\ transactions[i].to_user_id = uid
                    /\ transactions[i].from_user_id = "SYSTEM"
                 \/ /\ transactions[i].from_user_id = uid
                    /\ transactions[i].to_user_id = "SYSTEM"]), "day")
    ELSE sort_values_descending(
             SelectRows(transactions, [i \in 1..Len(transactions) |->
                 transactions[i].from_user_id = uid]), "day")

\* C11: the pages 1, 2, ... of a listing, read on one state of the table
\* with one page_size, put one after the other are the unpaginated sorted
\* listing: every matching row once, in the same order
C11_PagesCoverListing ==
    \A p \in Procs :
        (procs[p].pc = "done" /\ procs[p].op \in Listings) =>
            procs[p].data = MatchingRows(procs[p].op, procs[p].user_id)

\* C21: send_money writes the balance only after every acceptance check
\* has passed: a call that the daily-limit update has rejected (it is about
\* to answer LIMIT_UPDATE_FAILED) has not debited the stored balance
C21_NoDebitBeforeLimitRejection ==
    \A p \in Procs :
        (procs[p].op = "send_money" /\ procs[p].pc = "sm_rollback") =>
            user_row(users, procs[p].user_id).balance
              = user_row(PreUsers(p), procs[p].user_id).balance

(***************************************************************************)
(* Deposits, withdrawals and transfers of one user, requests served one at *)
(* a time, storage calls that may raise.                                   *)
(***************************************************************************)
BalanceSeqStep(p) ==
    \/ \E amt \in DepositAmounts : Deposit_Start(p, "u1", amt)
    \/ Deposit_Update(p)
    \/ Deposit_Append(p)
    \/ \E amt \in WithdrawAmounts : Withdraw_Start(p, "u1", amt)
    \/ Withdraw_Update(p)
    \/ Withdraw_Append(p)
    \/ \E amt \in TransferAmounts : SendMoney_Start(p, "u1", "b1", amt)
    \/ SendMoney_Validate(p)
    \/ SendMoney_CheckLimit(p)
    \/ SendMoney_Debit(p)
    \/ SendMoney_UpdateLimit(p)
    \/ SendMoney_Rollback(p)
    \/ SendMoney_Append(p)
    \/ SendMoney_Finish(p)
    \/ Return(p)

NextBalSeq == \E p \in Procs : BalanceSeqStep(p)

SpecBalSeq == InitSeq /\ [][NextBalSeq]_vars

\* C22: whenever deposit_money or withdraw_money has answered "failed"
\* (calls served one at a time), the user's stored balance is what it was
\* before the call
C22_FailedCallKeepsBalance ==
    \A p \in Procs :
        (/\ Finished(p, "deposit_money") \/ Finished(p, "withdraw_money")
         /\ procs[p].status = "failed") =>
            user_row(users, procs[p].user_id).balance
              = user_row(PreUsers(p), procs[p].user_id).balance

\* the change of the caller's balance that the answer of a call announces
AnnouncedChange(call) ==
    IF call.status # "success" THEN 0
    ELSE IF call.op = "deposit_money" THEN call.amount
    ELSE IF call.op \in {"withdraw_money", "send_money"} THEN 0 - call.amount
    ELSE 0

BeneficiaryRaceStep(p) ==
    \/ \E name \in Names, acct \in AccountNumbers :
          AddBeneficiary_Check(p, "u1", name, acct)
    \/ AddBeneficiary_Append(p)
    \/ RemoveBeneficiary_Find(p, "u1", "b1")
    \/ RemoveBeneficiary_Delete(p)
    \/ Return(p)

NextBenRace == Tick \/ \E p \in Procs : BeneficiaryRaceStep(p)

SpecBenRace == Init /\ [][NextBenRace]_vars

PreBeneficiaries(p) == procs[p].pre[2]

\* the rows of one owner that carry one account number
RowsOfAccount(rows, uid, account_number) ==
    {i \in 1..Len(rows) : /\ rows[i].owner_user_id = uid
                          /\ rows[i].account_number = account_number}

\* C24: when two add_beneficiary calls of the same owner with the same
\* account number overlap (both ran their duplicate checks on the same
\* table, which held no row for that owner and account number), at most one
\* of them answers success and the table ends with at most one row for that
\* owner and account number
C24_OneOfTwoConcurrentAdds ==
    \A p, q \in Procs :
        (/\ p # q
         /\ Finished(p, "add_beneficiary") /\ Finished(q, "add_beneficiary")
         /\ procs[p].user_id = procs[q].user_id
         /\ procs[p].account_number = procs[q].account_number
         /\ PreBeneficiaries(p) = PreBeneficiaries(q)
         /\ RowsOfAccount(PreBeneficiaries(p), procs[p].user_id,
                          procs[p].account_number) = {}) =>
            /\ ~ (procs[p].status = "success" /\ procs[q].status = "success")
            /\ Cardinality(RowsOfAccount(beneficiaries, procs[p].user_id,
                                         procs[p].account_number)) <= 1

\* C25: a withdrawal is not counted in the daily limit: the same-day
\* transfer total that the daily-limit checks of send_money compute for the
\* user is the same after a successful withdraw_money as before it
C25_WithdrawalNotCounted ==
    \A p \in Procs :
        (Finished(p, "withdraw_money") /\ procs[p].status = "success") =>
            get_user_daily_transfer_info(transactions, procs[p].user_id,
                today, today, FALSE).transferred_amount
              = get_user_daily_transfer_info(PreTransactions(p), procs[p].user_id,
                    today, today, FALSE).transferred_amount

(***************************************************************************)
(* Transfers of one owner while the owner's beneficiaries are added and    *)
(* removed, requests overlapping, no storage error.                        *)
(***************************************************************************)
RemovedStep(p) ==
    \/ \E acct \in AccountNumbers : AddBeneficiary_Check(p, "u1", "zoe", acct)
    \/ AddBeneficiary_Append(p)
    \/ \E bid \in {"b1", "b2"} : RemoveBeneficiary_Find(p, "u1", bid)
    \/ RemoveBeneficiary_Delete(p)
    \/ \E bid \in {"b1", "b2"}, amt \in TransferAmounts :
          SendMoney_Start(p, "u1", bid, amt)
    \/ SendMoney_Validate(p)
    \/ SendMoney_CheckLimit(p)
    \/ SendMoney_Debit(p)
    \/ SendMoney_UpdateLimit(p)
    \/ SendMoney_Rollback(p)
    \/ SendMoney_Append(p)
    \/ SendMoney_Finish(p)
    \/ Return(p)

NextRemoved == \E p \in Procs : RemovedStep(p)

SpecRemoved == Init /\ [][NextRemoved]_vars

\* the beneficiary ids handed out so far whose row has been appended
IssuedBeneficiaryIds ==
    ({"b1"} \cup {generate_beneficiary_id(n) : n \in 1..(next_id - 1)})
      \ {procs[r].beneficiary_id : r \in {x \in Procs : procs[x].pc = "ab_append"}}

NoBeneficiaryRow(rows, uid, bid) ==
    get_beneficiary_by_id_for_transaction(rows, uid, bid) = <<>>

\* a call that started when the row it names, a row of the initial table,
\* had been removed
StartedAfterRemoval(call) ==
    /\ \E i \in 1..Len(InitBeneficiaries) :
          /\ InitBeneficiaries[i].owner_user_id = call.user_id
          /\ InitBeneficiaries[i].beneficiary_id = call.beneficiary_id
    /\ NoBeneficiaryRow(call.pre[2], call.user_id, call.beneficiary_id)

C27_AppendKeepsPreviousRows ==
    [][\A p \in Procs :
          (/\ procs[p].pc = "idle"
           /\ procs'[p].pc = "ls_wrote" /\ procs'[p].op = "append_csv") =>
              /\ Len(file') = Len(file) + 1
              /\ SubSeq(file', 1, Len(file)) = file
              /\ file'[Len(file')] =
                   to_csv(<<procs'[p].data[Len(procs'[p].data)]>>)[1]]_vars

(***************************************************************************)
(* The local backend: rows appended, updated and deleted, one call at a    *)
(* time.                                                                   *)
(***************************************************************************)
LocalRowsStep(p) ==
    \/ \E row \in RowInputs : LocalStorage_append_csv(p, row)
    \/ \E value \in {"lunch", "7"} : LocalStorage_delete_row(p, value)
    \/ \E value \in {"lunch", "7"} : LocalStorage_update_row(p, value, "a,b")
    \/ LocalStorage_read_csv(p)
    \/ Return(p)

NextRows == \E p \in Procs : LocalRowsStep(p)

SpecRows == InitSeq /\ [][NextRows]_vars

\* the mask of delete_row / update_row for condition {description: value}
condition_mask(text, value) ==
    LET df == read_csv(text)
    IN [i \in 1..Len(df) |-> df[i].description = py_str(value)]

\* C28: update_row and delete_row touch only the rows that match the
\* condition: the rows that do not match stay in the file with every cell
\* unchanged and in the same order, and a call that returns False (no row
\* matches, or the table is empty) writes nothing
C28_OnlyMatchingRowsAffected ==
    [][\A p \in Procs, value \in {"lunch", "7"} :
          LET mask == condition_mask(file, value)
              kept == SelectRows(file, [i \in 1..Len(file) |-> ~mask[i]])
              hit == \E i \in 1..Len(file) : mask[i]
          IN /\ (/\ procs[p].pc = "idle" /\ procs'[p].op = "delete_row"
                 /\ hit /\ procs'[p].pc = "ls_wrote") =>
                    file' = kept
             /\ (/\ procs[p].pc = "idle" /\ procs'[p].op = "update_row"
                 /\ hit /\ procs'[p].pc = "ls_wrote") =>
                    /\ Len(file') = Len(file)
                    /\ \A i \in 1..Len(file) : ~mask[i] => file'[i] = file[i]
             /\ (/\ procs[p].pc = "idle"
                 /\ procs'[p].op \in {"delete_row", "update_row"}
                 /\ procs'[p].pc = "done") =>
                    file' = file /\ backups' = backups]_vars

(***************************************************************************)
(* LocalFileLock and AzureBlobLease: the acquisition loops.  lease is the  *)
(* holder of the lock on the file (or of the lease on the blob): a request *)
(* of this process, "other" for another process, "" for nobody.            *)
(* procs[p].elapsed is the time since start_time, in sleep periods.        *)
(***************************************************************************)
\* a clock that stands still
time_elapsed_frozen(elapsed, slept) == elapsed

\* time.time() - start_time after a sleep that took slept periods
time_elapsed(elapsed, slept) == elapsed + slept

\* LocalFileLock.__aenter__ lines 335-351: open the file, start_time
LocalFileLock_aenter(p) ==
    /\ procs[p].pc = "idle"
    /\ budget > 0
    /\ procs' = [procs EXCEPT ![p] =
          [@ EXCEPT !.pc = "lk_loop", !.op = "LocalFileLock", !.elapsed = 0]]
    /\ budget' = budget - 1
    /\ UNCHANGED <<tables, today, faults, next_id, store>>

\* lines 352-368: the loop test, then flock(LOCK_EX | LOCK_NB); lines
\* 370-371: CSVLockError when the loop test fails
LocalFileLock_flock(p) ==
    /\ procs[p].pc = "lk_loop" /\ procs[p].op = "LocalFileLock"
    /\ IF procs[p].elapsed < MaxLockWaits
       THEN IF lease = ""
            THEN /\ lease' = p
                 /\ procs' = [procs EXCEPT ![p] = [@ EXCEPT !.pc = "lk_held"]]
            ELSE /\ lease' = lease
                 /\ procs' = [procs EXCEPT ![p] = [@ EXCEPT !.pc = "lk_sleep"]]
       ELSE /\ lease' = lease
            /\ procs' = [procs EXCEPT ![p] = Respond(p, "failed", "CSVLockError")]
    /\ UNCHANGED <<tables, today, faults, budget, next_id, file, backups, manager>>

\* AzureBlobLease.__aenter__ lines 404-413: the blob client, start_time
AzureBlobLease_aenter(p) ==
    /\ procs[p].pc = "idle"
    /\ budget > 0
    /\ procs' = [procs EXCEPT ![p] =
          [@ EXCEPT !.pc = "lk_loop", !.op = "AzureBlobLease", !.elapsed = 0]]
    /\ budget' = budget - 1
    /\ UNCHANGED <<tables, today, faults, next_id, store>>

\* lines 414-422: the loop test, then acquire_lease; the client is the
\* asyncio BlobClient and acquire_lease is not awaited, so reading .id of
\* the coroutine raises and the except branch sleeps, whoever holds the
\* lease; line 424: StorageError when the loop test fails
AzureBlobLease_acquire_lease(p) ==
    /\ procs[p].pc = "lk_loop" /\ procs[p].op = "AzureBlobLease"
    /\ procs' = [procs EXCEPT ![p] =
          IF procs[p].elapsed < MaxLockWaits
          THEN [@ EXCEPT !.pc = "lk_sleep"]
          ELSE Respond(p, "failed", "StorageError")]
    /\ UNCHANGED <<tables, today, faults, budget, next_id, store>>

\* await asyncio.sleep(0.1) (local line 368) or asyncio.sleep(1) (blob line
\* 422): the coroutine resumes after at least one period
Lock_sleep(p) ==
    /\ procs[p].pc = "lk_sleep"
    /\ \E slept \in 1..MaxSleep :
         procs' = [procs EXCEPT ![p] =
             [@ EXCEPT !.pc = "lk_loop",
                       !.elapsed = time_elapsed(@, slept)]]
    /\ UNCHANGED <<tables, today, faults, budget, next_id, store>>

\* LocalFileLock.__aexit__ lines 373-385: unlock and close
LocalFileLock_aexit(p) ==
    /\ procs[p].pc = "lk_held"
    /\ lease' = IF lease = p THEN "" ELSE lease
    /\ procs' = [procs EXCEPT ![p] = Respond(p, "success", "")]
    /\ UNCHANGED <<tables, today, faults, budget, next_id, file, backups, manager>>

\* another process takes or releases the lock on the file
OtherProcess_flock ==
    /\ lease \in {"", "other"}
    /\ lease' = IF lease = "" THEN "other" ELSE ""
    /\ UNCHANGED <<tables, procs, today, faults, budget, next_id, file,
                   backups, manager>>

\* the steps of an acquisition that the event loop runs without waiting for
\* anybody else
Acquisition(p) ==
    \/ LocalFileLock_flock(p)
    \/ AzureBlobLease_acquire_lease(p)
    \/ Lock_sleep(p)

LockStep(p) ==
    \/ LocalFileLock_aenter(p)
    \/ AzureBlobLease_aenter(p)
    \/ Acquisition(p)
    \/ LocalFileLock_aexit(p)
    \/ Return(p)

NextLock == OtherProcess_flock \/ \E p \in Procs : LockStep(p)

\* the event loop resumes every coroutine that is ready: a running
\* acquisition is not left waiting for ever; nothing obliges a holder to
\* release or a request to arrive
SpecLock ==
    Init /\ [][NextLock]_vars /\ \A p \in Procs : WF_vars(Acquisition(p))

ConnectionStrings == {"conn1", "conn2"}

\* migrate_to_azure lines 217-221: the except branch
migrate_to_azure_except(m) ==
    [m EXCEPT !.use_local_storage = m.original_setting,
              !.pc = "ready", !.result = "False"]

\* lines 179-188: the isinstance test, the settings are switched and
\* AzureStorage() is constructed; raises: the constructor raised
StorageManager_migrate_to_azure(azure_connection_string) ==
    /\ manager.pc = "ready" /\ manager.storage = "local"
    /\ budget > 0
    /\ \E raises \in BOOLEAN :
         LET switched ==
                 [manager EXCEPT
                     !.pre = <<manager.storage, manager.use_local_storage,
                               manager.azure_storage_connection_string>>,
                     !.result = "none",
                     !.original_setting = manager.use_local_storage,
                     !.azure_storage_connection_string = azure_connection_string,
                     !.use_local_storage = FALSE]
         IN manager' = IF raises THEN migrate_to_azure_except(switched)
                       ELSE [switched EXCEPT !.pc = "migrating"]
    /\ budget' = budget - 1
    /\ UNCHANGED <<tables, procs, today, faults, next_id, file, lease, backups>>

\* lines 190-215: the loop over the CSV files; exists: a file exists
\* locally, and then AzureStorage.write_csv raises (after its backup when
\* the blob exists already); with no file the manager switches to the blob
\* backend
StorageManager_migrate_files ==
    /\ manager.pc = "migrating"
    /\ \E exists \in BOOLEAN, blob_exists \in BOOLEAN :
         IF exists
         THEN /\ manager' = migrate_to_azure_except(manager)
              /\ backups' = IF blob_exists THEN backups + 1 ELSE backups
         ELSE /\ manager' = [manager EXCEPT !.pc = "ready", !.storage = "azure",
                                            !.result = "True"]
              /\ backups' = backups
    /\ UNCHANGED <<tables, procs, today, faults, budget, next_id, file, lease>>

NextMigrate ==
    \/ StorageManager_initialize_storage
    \/ StorageManager_fallback
    \/ \E c \in ConnectionStrings : StorageManager_migrate_to_azure(c)
    \/ StorageManager_migrate_files
    \/ \E p \in Procs : ManagerStep(p)

SpecMigrate == InitManager /\ [][NextMigrate]_vars

\* C30: when migrate_to_azure has returned False the manager is as it was
\* before the call: the same backend (the local one), the same
\* use_local_storage and the same Azure connection string
C30_FailedMigrationRestores ==
    manager.result = "False" =>
        /\ manager.storage = "local"
        /\ <<manager.storage, manager.use_local_storage,
             manager.azure_storage_connection_string>> = manager.pre

====
